---- MODULE Spec2Model ----
(***************************************************************************)
(* A model of assignment1-basics/cs336_basics/pretokenization_example.py:   *)
(* the chunk boundary finder (find_chunk_boundaries), the pretokenizer's   *)
(* frequency table (pretokenize_chunk), the pair statistics                *)
(* (update_token_pairs, sort_key_function), the merge (merge_pair) and the *)
(* fixed six-iteration loop of pretokenize_file.                           *)
(*                                                                         *)
(* Python values are modelled as follows.  A str or bytes value is a       *)
(* sequence of code points / byte values, a tuple or list is a sequence,   *)
(* and a dict is the sequence of its <<key, value>> items in insertion     *)
(* order (Python dicts iterate in insertion order, and an assignment to an *)
(* existing key keeps the key's position).  Python indices are 0-based;    *)
(* the model keeps the Python index and adds one when it indexes a         *)
(* sequence.                                                               *)
(***************************************************************************)
EXTENDS Integers, Sequences, FiniteSets, Bags, TLC

VARIABLES
    pc,                   \* position of the running function
    error,                \* the exception that ended the run, or "none"
    \* ---- find_chunk_boundaries
    file,                 \* the corpus: [size, marks]; see ByteAt
    file_pos,             \* the stream position of `file`
    desired_num_chunks,   \* argument
    split_special_token,  \* argument
    chunk_boundaries,     \* the list of boundary offsets being snapped
    bi,                   \* the for loop's index into chunk_boundaries
    initial_position,     \* offset of the window the while loop reads next
    boundaries,           \* the returned list (<<>> before the return)
    \* ---- pretokenize_chunk, update_token_pairs, merge_pair, the loop
    tokens,               \* the list `tokens` after line 64, as a bag
    dict_tokens,          \* pretokenize_file's frequency table
    token_pairs,          \* the accumulator update_token_pairs filled last
    most_frequent_pair,   \* what update_token_pairs returned last
    token_dict,           \* first argument of the last merge_pair call
    pair_to_merge,        \* second argument of the last merge_pair call
    iteration             \* completed iterations of `for _ in range(6)`

vars == <<pc, error, file, file_pos, desired_num_chunks, split_special_token,
          chunk_boundaries, bi, initial_position, boundaries, tokens,
          dict_tokens, token_pairs, most_frequent_pair, token_dict,
          pair_to_merge, iteration>>

fcb_vars == <<file, file_pos, desired_num_chunks, split_special_token,
              chunk_boundaries, bi, initial_position, boundaries>>

bpe_vars == <<tokens, dict_tokens, token_pairs, most_frequent_pair,
              token_dict, pair_to_merge, iteration>>

-----------------------------------------------------------------------------
(* Bounds of the model.                                                    *)

\* Small files have 0..MaxFileSize bytes; every byte pattern is tried.
MaxFileSize == 3
\* Large files have NumWindows * mini_chunk_size + (0..MaxTail) bytes.
NumWindows == 2
MaxTail == 1
\* desired_num_chunks ranges over -1..MaxChunks.
MaxChunks == 3
\* split_special_token has 0..MaxMarkerLen bytes.
MaxMarkerLen == 2

\* A corpus chunk's tokens hold at most MaxCorpusChars characters in all.
MaxCorpusChars == 7
\* A frequency table handed directly to merge_pair or update_token_pairs
\* holds at most MaxTableChars characters in all, with counts 1..MaxCount.
MaxTableChars == 4
MaxCount == 2

\* The two byte values a file or a marker is made of: 0 fills a file, 1 is
\* the byte placed at chosen offsets.
ByteValues == {0, 1}

\* The code points of the corpus text: ord('a') and ord('b').
Chars == {97, 98}

-----------------------------------------------------------------------------
(* Generic helpers.                                                        *)

Min(a, b) == IF a <= b THEN a ELSE b
Max(a, b) == IF a >= b THEN a ELSE b

Range(s) == {s[i] : i \in DOMAIN s}

\* All sequences over S of length lo..hi.
SeqsOf(S, lo, hi) == UNION {[1..n -> S] : n \in lo..hi}

\* Python's a // b (floor division) for b # 0.
FloorDiv(a, b) ==
    IF b > 0
    THEN (IF a >= 0 THEN a \div b ELSE -(((-a) + b - 1) \div b))
    ELSE (IF a <= 0 THEN (-a) \div (-b) ELSE -((a + (-b) - 1) \div (-b)))

\* sorted(set(xs)) for a list xs of integers.
RECURSIVE SortedSet(_)
SortedSet(S) ==
    IF S = {} THEN <<>>
    ELSE LET m == CHOOSE x \in S : \A y \in S : x <= y
         IN  <<m>> \o SortedSet(S \ {m})

-----------------------------------------------------------------------------
(* The corpus file.  A file of `size` bytes holds byte 1 at the offsets in  *)
(* `marks` and byte 0 everywhere else.                                     *)

ByteAt(f, p) == IF p \in f.marks THEN 1 ELSE 0

\* file.read(n) at stream position pos: the bytes up to the end of file.
Read(f, pos, n) ==
    [i \in 1..Min(n, Max(f.size - pos, 0)) |-> ByteAt(f, pos + i - 1)]

\* bytes.find(sub): the lowest 0-based index where sub starts in s, or -1.
Find(s, sub) ==
    LET starts == {i \in 0..(Len(s) - Len(sub)) :
                      \A j \in 1..Len(sub) : s[i + j] = sub[j]}
    IN  IF starts = {} THEN -1
        ELSE CHOOSE i \in starts : \A k \in starts : i <= k

mini_chunk_size == 4096

-----------------------------------------------------------------------------
(* find_chunk_boundaries                                                   *)

\* The input files.  A small file holds any byte pattern.  A large file
\* spans NumWindows look-ahead windows plus a tail and holds byte 0 except
\* possibly from the last byte of its last full window on.
FileSizes ==
    (0..MaxFileSize)
        \cup {NumWindows * mini_chunk_size + t : t \in 0..MaxTail}

MarkOffsets(size) ==
    IF size <= MaxFileSize THEN 0..(size - 1)
    ELSE (NumWindows * mini_chunk_size - 1)..(size - 1)

Files ==
    UNION {{[size |-> n, marks |-> m] : m \in SUBSET MarkOffsets(n)} :
              n \in FileSizes}

Markers == SeqsOf(ByteValues, 0, MaxMarkerLen)

\* The bpe variables while find_chunk_boundaries runs.
BpeIdle ==
    /\ tokens = EmptyBag
    /\ dict_tokens = <<>>
    /\ token_pairs = <<>>
    /\ most_frequent_pair = <<>>
    /\ token_dict = <<>>
    /\ pair_to_merge = <<>>
    /\ iteration = 0

InitBoundaries ==
    /\ pc = "fcb_enter"
    /\ error = "none"
    /\ file \in Files
    /\ file_pos = 0
    /\ desired_num_chunks \in (-1)..MaxChunks
    /\ split_special_token \in Markers
    /\ chunk_boundaries = <<>>
    /\ bi = 0
    /\ initial_position = 0
    /\ boundaries = <<>>
    /\ BpeIdle

\* Lines 19-24: file_size after the seek to the end, and chunk_size.
file_size == file.size
chunk_size == FloorDiv(file_size, desired_num_chunks)

\* Line 28: [i * chunk_size for i in range(desired_num_chunks + 1)].
InitialGuesses ==
    [k \in 1..Max(desired_num_chunks + 1, 0) |-> (k - 1) * chunk_size]

\* Lines 15-29.  The division raises for desired_num_chunks = 0; for a
\* negative count the list of guesses is empty and line 29 raises.
FcbEnter ==
    /\ pc = "fcb_enter"
    /\ IF desired_num_chunks = 0
       THEN /\ pc' = "fcb_raised"
            /\ error' = "ZeroDivisionError"
            /\ UNCHANGED <<chunk_boundaries, bi>>
       ELSE IF InitialGuesses = <<>>
       THEN /\ pc' = "fcb_raised"
            /\ error' = "IndexError"
            /\ UNCHANGED <<chunk_boundaries, bi>>
       ELSE /\ chunk_boundaries' =
                [InitialGuesses EXCEPT ![Len(InitialGuesses)] = file_size]
            /\ bi' = 1
            /\ pc' = "fcb_for"
            /\ error' = "none"
    /\ file_pos' = 0
    /\ UNCHANGED <<file, desired_num_chunks, split_special_token,
                   initial_position, boundaries>>
    /\ UNCHANGED bpe_vars

\* Lines 33-35: the next bi of range(1, len(chunk_boundaries) - 1), and the
\* seek to its guess.
FcbFor ==
    /\ pc = "fcb_for"
    /\ bi < Len(chunk_boundaries) - 1
    /\ initial_position' = chunk_boundaries[bi + 1]
    /\ file_pos' = chunk_boundaries[bi + 1]
    /\ pc' = "fcb_read"
    /\ UNCHANGED <<error, file, desired_num_chunks, split_special_token,
                   chunk_boundaries, bi, boundaries>>
    /\ UNCHANGED bpe_vars

\* Lines 37-49: one pass of the while loop.
FcbRead ==
    /\ pc = "fcb_read"
    /\ LET mini_chunk == Read(file, file_pos, mini_chunk_size)
           found_at == Find(mini_chunk, split_special_token)
       IN  /\ file_pos' = file_pos + Len(mini_chunk)
           /\ IF mini_chunk = <<>>
              THEN /\ chunk_boundaries' =
                        [chunk_boundaries EXCEPT ![bi + 1] = file_size]
                   /\ bi' = bi + 1
                   /\ pc' = "fcb_for"
                   /\ UNCHANGED initial_position
              ELSE IF found_at # -1
              THEN /\ chunk_boundaries' =
                        [chunk_boundaries EXCEPT
                            ![bi + 1] = initial_position + found_at]
                   /\ bi' = bi + 1
                   /\ pc' = "fcb_for"
                   /\ UNCHANGED initial_position
              ELSE /\ initial_position' = initial_position + mini_chunk_size
                   /\ UNCHANGED <<chunk_boundaries, bi, pc>>
    /\ UNCHANGED <<error, file, desired_num_chunks, split_special_token,
                   boundaries>>
    /\ UNCHANGED bpe_vars

\* Mutant: the list is returned as it is, neither deduplicated nor sorted.
ReturnValueAsIs(cb) == cb

\* Line 52: sorted(set(chunk_boundaries)).
ReturnValue(cb) == SortedSet(Range(cb))

FcbReturn ==
    /\ pc = "fcb_for"
    /\ bi >= Len(chunk_boundaries) - 1
    /\ boundaries' = ReturnValue(chunk_boundaries)
    /\ pc' = "fcb_returned"
    /\ UNCHANGED <<error, file, file_pos, desired_num_chunks,
                   split_special_token, chunk_boundaries, bi,
                   initial_position>>
    /\ UNCHANGED bpe_vars

NextBoundaries == FcbEnter \/ FcbFor \/ FcbRead \/ FcbReturn

SpecBoundaries == InitBoundaries /\ [][NextBoundaries]_vars

-----------------------------------------------------------------------------
(* Python dicts, as sequences of <<key, value>> items in insertion order.  *)

DictKeys(d) == {d[i][1] : i \in DOMAIN d}

DictGet(d, k) == d[CHOOSE i \in DOMAIN d : d[i][1] = k][2]

\* d[k] = v
DictSet(d, k, v) ==
    IF k \in DictKeys(d)
    THEN [i \in DOMAIN d |-> IF d[i][1] = k THEN <<k, v>> ELSE d[i]]
    ELSE Append(d, <<k, v>>)

\* All orders in which the elements of the finite set S can be listed.
Orders(S) ==
    {o \in [1..Cardinality(S) -> S] :
        \A i, j \in DOMAIN o : i # j => o[i] # o[j]}

-----------------------------------------------------------------------------
(* pretokenize_chunk                                                       *)

\* tuple(token): the 1-character strings of a string.
CharTuple(token) == [i \in 1..Len(token) |-> <<token[i]>>]

\* Line 67, with set(tokens) iterated in the order `order`.
DictOfTokens(bag, order) ==
    [i \in DOMAIN order |-> <<CharTuple(order[i]), CopiesIn(order[i], bag)>>]

-----------------------------------------------------------------------------
(* merge_pair                                                              *)

\* Mutants of the while loop: the merged symbol keeps only the left symbol;
\* the merged symbol is built right-to-left; the scan advances by one after
\* a merge.
RECURSIVE MergeScanKeepLeft(_, _, _, _)
MergeScanKeepLeft(token_tuple, pair, i, new_token) ==
    IF ~(i < Len(token_tuple)) THEN new_token
    ELSE IF /\ i < Len(token_tuple) - 1
            /\ <<token_tuple[i + 1], token_tuple[i + 2]>> = pair
         THEN MergeScanKeepLeft(token_tuple, pair, i + 2,
                                Append(new_token, token_tuple[i + 1]))
         ELSE MergeScanKeepLeft(token_tuple, pair, i + 1,
                                Append(new_token, token_tuple[i + 1]))

RECURSIVE MergeScanSwapped(_, _, _, _)
MergeScanSwapped(token_tuple, pair, i, new_token) ==
    IF ~(i < Len(token_tuple)) THEN new_token
    ELSE IF /\ i < Len(token_tuple) - 1
            /\ <<token_tuple[i + 1], token_tuple[i + 2]>> = pair
         THEN MergeScanSwapped(token_tuple, pair, i + 2,
                               Append(new_token,
                                      token_tuple[i + 2] \o token_tuple[i + 1]))
         ELSE MergeScanSwapped(token_tuple, pair, i + 1,
                               Append(new_token, token_tuple[i + 1]))

RECURSIVE MergeScanOverlap(_, _, _, _)
MergeScanOverlap(token_tuple, pair, i, new_token) ==
    IF ~(i < Len(token_tuple)) THEN new_token
    ELSE IF /\ i < Len(token_tuple) - 1
            /\ <<token_tuple[i + 1], token_tuple[i + 2]>> = pair
         THEN MergeScanOverlap(token_tuple, pair, i + 1,
                               Append(new_token,
                                      token_tuple[i + 1] \o token_tuple[i + 2]))
         ELSE MergeScanOverlap(token_tuple, pair, i + 1,
                               Append(new_token, token_tuple[i + 1]))

\* Lines 79-89: the while loop from index i on, new_token so far.
RECURSIVE MergeScan(_, _, _, _)
MergeScan(token_tuple, pair, i, new_token) ==
    IF ~(i < Len(token_tuple)) THEN new_token
    ELSE IF /\ i < Len(token_tuple) - 1
            /\ <<token_tuple[i + 1], token_tuple[i + 2]>> = pair
         THEN MergeScan(token_tuple, pair, i + 2,
                        Append(new_token,
                               token_tuple[i + 1] \o token_tuple[i + 2]))
         ELSE MergeScan(token_tuple, pair, i + 1,
                        Append(new_token, token_tuple[i + 1]))

\* Lines 78-91: new_token_tuple for one key of the table.
NewTokenTuple(token_tuple, pair) == MergeScan(token_tuple, pair, 0, <<>>)

\* Line 92: new_token_dict[new_token_tuple] = count.
StoreCount(new_token_dict, new_token_tuple, count) ==
    DictSet(new_token_dict, new_token_tuple, count)

\* Lines 77-92: the for loop from item n on, new_token_dict so far.
RECURSIVE MergeItems(_, _, _, _)
MergeItems(table, pair, n, new_token_dict) ==
    IF n > Len(table) THEN new_token_dict
    ELSE MergeItems(table, pair, n + 1,
                    StoreCount(new_token_dict,
                               NewTokenTuple(table[n][1], pair),
                               table[n][2]))

merge_pair(table, pair) == MergeItems(table, pair, 1, <<>>)

-----------------------------------------------------------------------------
(* sort_key_function and update_token_pairs                                *)

\* Line 105: (-frequency, -ord(char1[0]), -ord(char2[0])).
sort_key_function(item) ==
    <<-item[2], -item[1][1][1], -item[1][2][1]>>

\* Python's k1 < k2 on tuples of three integers.
KeyLess(k1, k2) ==
    \/ k1[1] < k2[1]
    \/ k1[1] = k2[1] /\ k1[2] < k2[2]
    \/ k1[1] = k2[1] /\ k1[2] = k2[2] /\ k1[3] < k2[3]

\* sorted() is stable: an item goes behind the items whose key is not
\* greater than its own.
RECURSIVE InsertByKey(_, _)
InsertByKey(sorted, item) ==
    IF sorted = <<>> THEN <<item>>
    ELSE IF KeyLess(sort_key_function(item), sort_key_function(sorted[1]))
         THEN <<item>> \o sorted
         ELSE <<sorted[1]>> \o InsertByKey(Tail(sorted), item)

\* Line 121: sorted(token_pairs.items(), key=sort_key_function).
RECURSIVE SortedItems(_, _)
SortedItems(items, sorted) ==
    IF items = <<>> THEN sorted
    ELSE SortedItems(Tail(items), InsertByKey(sorted, items[1]))

sorted_pairs(pairs) == SortedItems(pairs, <<>>)

\* Lines 115-118: token_pairs[pair] += count, or = count for a new pair.
AddCount(pairs, pair, count) ==
    IF pair \in DictKeys(pairs)
    THEN DictSet(pairs, pair, DictGet(pairs, pair) + count)
    ELSE DictSet(pairs, pair, count)

\* Lines 111-118: the inner loop from idx on.
RECURSIVE CountPairsOf(_, _, _, _)
CountPairsOf(token_tuple, count, idx, pairs) ==
    IF ~(idx < Len(token_tuple) - 1) THEN pairs
    ELSE CountPairsOf(token_tuple, count, idx + 1,
                      AddCount(pairs,
                               <<token_tuple[idx + 1], token_tuple[idx + 2]>>,
                               count))

\* Lines 109-118: the outer loop from item n on.
RECURSIVE CountPairs(_, _, _)
CountPairs(table, n, pairs) ==
    IF n > Len(table) THEN pairs
    ELSE CountPairs(table, n + 1,
                    CountPairsOf(table[n][1], table[n][2], 0, pairs))

\* Mutant: the pair is returned with its symbols exchanged.
FirstPairSwapped(sorted) == <<sorted[1][1][2], sorted[1][1][1]>>

\* Lines 124-125: sorted_pairs[0], unpacked.
FirstPair(sorted) == sorted[1][1]

-----------------------------------------------------------------------------
(* The loop of pretokenize_file, lines 143-152, on one chunk.              *)

range_stop == 6

\* The strings of n characters.
StringsOfLen(n) == [1..n -> Chars]

\* The bags of non-empty strings that hold n characters in all.
RECURSIVE BagsOfChars(_)
BagsOfChars(n) ==
    IF n = 0 THEN {EmptyBag}
    ELSE UNION {{b (+) SetToBag({t}) :
                    b \in BagsOfChars(n - m), t \in StringsOfLen(m)} :
                m \in 1..n}

TokenBags == UNION {BagsOfChars(n) : n \in 0..MaxCorpusChars}

\* The find_chunk_boundaries variables while the loop runs.
FcbIdle ==
    /\ file = [size |-> 0, marks |-> {}]
    /\ file_pos = 0
    /\ desired_num_chunks = 1
    /\ split_special_token = <<>>
    /\ chunk_boundaries = <<>>
    /\ bi = 0
    /\ initial_position = 0
    /\ boundaries = <<>>

InitTrain ==
    /\ pc = "pretokenize"
    /\ error = "none"
    /\ tokens \in TokenBags
    /\ dict_tokens = <<>>
    /\ token_pairs = <<>>
    /\ most_frequent_pair = <<>>
    /\ token_dict = <<>>
    /\ pair_to_merge = <<>>
    /\ iteration = 0
    /\ FcbIdle

\* Line 143 (lines 66-69 of pretokenize_chunk): the table of the chunk's
\* tokens.  A set of strings is iterated in an order the hash seed decides.
PretokenizeChunk ==
    /\ pc = "pretokenize"
    /\ \E order \in Orders(BagToSet(tokens)) :
           dict_tokens' = DictOfTokens(tokens, order)
    /\ pc' = "loop_update"
    /\ UNCHANGED <<error, tokens, token_pairs, most_frequent_pair,
                   token_dict, pair_to_merge, iteration>>
    /\ UNCHANGED fcb_vars

\* update_token_pairs(dict_tokens, {}): the accumulator it leaves, and the
\* pair it returns or the IndexError of sorted_pairs[0] on an empty list.
UpdateTokenPairsCall(next_pc) ==
    LET pairs == CountPairs(dict_tokens, 1, <<>>)
        sorted == sorted_pairs(pairs)
    IN  /\ token_pairs' = pairs
        /\ IF sorted = <<>>
           THEN /\ pc' = "raised"
                /\ error' = "IndexError"
                /\ UNCHANGED most_frequent_pair
           ELSE /\ most_frequent_pair' = FirstPair(sorted)
                /\ pc' = next_pc
                /\ UNCHANGED error
        /\ UNCHANGED <<tokens, dict_tokens, token_dict, pair_to_merge,
                       iteration>>
        /\ UNCHANGED fcb_vars

\* merge_pair(dict_tokens, pair), assigned to dict_tokens.
MergePairCall(pair) ==
    /\ token_dict' = dict_tokens
    /\ pair_to_merge' = pair
    /\ dict_tokens' = merge_pair(dict_tokens, pair)
    /\ UNCHANGED <<error, tokens, token_pairs, most_frequent_pair>>
    /\ UNCHANGED fcb_vars

\* Lines 147-149.
UpdateTokenPairs ==
    /\ pc = "loop_update"
    /\ iteration < range_stop
    /\ UpdateTokenPairsCall("loop_merge")

\* Lines 150-151.
MergePair ==
    /\ pc = "loop_merge"
    /\ MergePairCall(most_frequent_pair)
    /\ iteration' = iteration + 1
    /\ pc' = "loop_update"

\* Line 152: range(6) is exhausted.
LoopExit ==
    /\ pc = "loop_update"
    /\ ~(iteration < range_stop)
    /\ pc' = "done"
    /\ UNCHANGED <<error>>
    /\ UNCHANGED bpe_vars
    /\ UNCHANGED fcb_vars

NextTrain == PretokenizeChunk \/ UpdateTokenPairs \/ MergePair \/ LoopExit

SpecTrain == InitTrain /\ [][NextTrain]_vars

-----------------------------------------------------------------------------
(* merge_pair and update_token_pairs called directly on any table.         *)

\* The keys (tuples of non-empty symbols) that hold n characters in all.
RECURSIVE KeysOfChars(_)
KeysOfChars(n) ==
    IF n = 0 THEN {<<>>}
    ELSE UNION {{<<sym>> \o k :
                    sym \in StringsOfLen(m), k \in KeysOfChars(n - m)} :
                m \in 1..n}

\* The tables (distinct non-empty keys, counts 1..MaxCount) that hold n
\* characters in all, in every insertion order.
RECURSIVE TablesOfChars(_)
TablesOfChars(n) ==
    IF n = 0 THEN {<<>>}
    ELSE UNION {LET rest == TablesOfChars(n - m)
                IN  UNION {{<<<<k, c>>>> \o t :
                              c \in 1..MaxCount,
                              t \in {x \in rest : k \notin DictKeys(x)}} :
                           k \in KeysOfChars(m)} :
                m \in 1..n}

Tables == UNION {TablesOfChars(n) : n \in 0..MaxTableChars}

\* The symbols of a table, and the pairs of them.
SymbolsOf(table) == UNION {Range(k) : k \in DictKeys(table)}
PairsOver(table) == SymbolsOf(table) \X SymbolsOf(table)

InitMerge ==
    /\ pc = "call"
    /\ error = "none"
    /\ tokens = EmptyBag
    /\ dict_tokens \in Tables
    /\ token_pairs = <<>>
    /\ most_frequent_pair = <<>>
    /\ token_dict = <<>>
    /\ pair_to_merge = <<>>
    /\ iteration = 0
    /\ FcbIdle

\* dict_tokens = merge_pair(dict_tokens, pair) for any pair of symbols.
CallMergePair ==
    /\ pc = "call"
    /\ \E pair \in PairsOver(dict_tokens) : MergePairCall(pair)
    /\ pc' = "merge_returned"
    /\ UNCHANGED iteration

\* update_token_pairs(dict_tokens, {}).
CallUpdateTokenPairs ==
    /\ pc = "call"
    /\ UpdateTokenPairsCall("update_returned")

NextMerge == CallMergePair \/ CallUpdateTokenPairs

SpecMerge == InitMerge /\ [][NextMerge]_vars

-----------------------------------------------------------------------------
(* Vocabulary of the properties.                                           *)

\* A merge_pair call has returned: token_dict and pair_to_merge are its
\* arguments and dict_tokens is its result.
Merged == pair_to_merge # <<>>

\* The sum of the counts of a table.
RECURSIVE SumValues(_)
SumValues(d) ==
    IF d = <<>> THEN 0 ELSE d[1][2] + SumValues(Tail(d))

\* ''.join(key): the characters of a key.
RECURSIVE Flatten(_)
Flatten(key) == IF key = <<>> THEN <<>> ELSE key[1] \o Flatten(Tail(key))

\* The number of symbols of all keys of a table.
RECURSIVE TotalSymbols(_)
TotalSymbols(table) ==
    IF table = <<>> THEN 0 ELSE Len(table[1][1]) + TotalSymbols(Tail(table))

\* Symbols minus sequences: the merges a table can still take.
Slack(table) == TotalSymbols(table) - Len(table)

\* Symbols minus sequences of the table of the chunk's tokens: one symbol
\* per character, one sequence per distinct token.
RECURSIVE SlackOfStrings(_)
SlackOfStrings(S) ==
    IF S = {} THEN 0
    ELSE LET t == CHOOSE x \in S : TRUE
         IN  (Len(t) - 1) + SlackOfStrings(S \ {t})

InitialSlack == SlackOfStrings(BagToSet(tokens))

\* The sum of the counts of the items of `table` at the indices in I.
RECURSIVE SumAt(_, _)
SumAt(table, I) ==
    IF I = {} THEN 0
    ELSE LET i == CHOOSE x \in I : TRUE
         IN  table[i][2] + SumAt(table, I \ {i})

\* Python's a < b on strings: lexicographic by code point, a proper prefix
\* being smaller.
StrLess(a, b) ==
    \E i \in 1..(Min(Len(a), Len(b)) + 1) :
        /\ \A j \in 1..(i - 1) : a[j] = b[j]
        /\ \/ i > Len(a) /\ i <= Len(b)
           \/ i <= Len(a) /\ i <= Len(b) /\ a[i] < b[i]

\* p < q on pairs of strings: left symbols first, then right symbols.
PairLess(p, q) ==
    \/ StrLess(p[1], q[1])
    \/ p[1] = q[1] /\ StrLess(p[2], q[2])

\* The pair occurs at 1-based position p of the key t.
MatchAt(t, pair, p) == p \in 1..(Len(t) - 1) /\ <<t[p], t[p + 1]>> = pair

\* The positions a left-to-right non-overlapping pass merges at: a match
\* that an even number of consecutive matches precedes.
GreedyStarts(t, pair) ==
    {p \in 1..(Len(t) - 1) :
        /\ MatchAt(t, pair, p)
        /\ Cardinality({q \in 1..(p - 1) :
                           \A x \in q..(p - 1) : MatchAt(t, pair, x)}) % 2 = 0}

\* The key that pass produces: every position not swallowed by a merge, in
\* order, a merged position holding the concatenation.
GreedyResult(t, pair) ==
    LET starts == GreedyStarts(t, pair)
        kept == {p \in 1..Len(t) : (p - 1) \notin starts}
        at(m) == CHOOSE p \in kept : Cardinality({q \in kept : q <= p}) = m
    IN  [m \in 1..Cardinality(kept) |->
            IF at(m) \in starts THEN t[at(m)] \o t[at(m) + 1] ELSE t[at(m)]]

\* The first offset >= g at which `marker` starts in the file f, or the
\* file's size if there is none.
FirstOccurrence(f, marker, g) ==
    LET hits == {p \in g..(f.size - Len(marker)) :
                    \A j \in 1..Len(marker) : ByteAt(f, p + j - 1) = marker[j]}
    IN  IF hits = {} THEN f.size
        ELSE CHOOSE p \in hits : \A q \in hits : p <= q

-----------------------------------------------------------------------------
(* The claims.                                                             *)

\* C1: merge_pair sums counts on collision: every item of the result holds
\* the sum of the counts of the input items that rewrite to its key, so
\* the counts of the result add up to the counts of the input.
C1_MergeSumsCollidingCounts ==
    Merged =>
        /\ \A j \in DOMAIN dict_tokens :
               dict_tokens[j][2] =
                   SumAt(token_dict,
                         {i \in DOMAIN token_dict :
                             NewTokenTuple(token_dict[i][1], pair_to_merge)
                                 = dict_tokens[j][1]})
        /\ SumValues(dict_tokens) = SumValues(token_dict)

\* C2: update_token_pairs called with an empty accumulator returns a pair
\* of the highest aggregate frequency, and every other pair of that
\* frequency is smaller in Python's string order (left symbols compared
\* first, right symbols second).
C2_SelectsLexGreatestOfMostFrequent ==
    pc \in {"loop_merge", "update_returned"} =>
        /\ most_frequent_pair \in DictKeys(token_pairs)
        /\ \A i \in DOMAIN token_pairs :
               LET best == DictGet(token_pairs, most_frequent_pair)
               IN  /\ token_pairs[i][2] <= best
                   /\ (token_pairs[i][2] = best
                          /\ token_pairs[i][1] # most_frequent_pair)
                        => PairLess(token_pairs[i][1], most_frequent_pair)

\* C3: when no sequence of the table has two symbols (or the table is
\* empty) the loop ends normally: no exception is raised.
C3_ConvergesWithoutError ==
    (\A i \in DOMAIN dict_tokens : Len(dict_tokens[i][1]) < 2)
        => (pc # "raised" /\ error = "none")

\* C4: for desired_num_chunks >= 1 and a non-empty marker the returned list
\* starts at 0, ends at the file size, is strictly increasing, lies within
\* [0, file size] and has at most desired_num_chunks + 1 elements.
C4_BoundariesWellFormed ==
    (pc = "fcb_returned" /\ desired_num_chunks >= 1
                         /\ Len(split_special_token) >= 1) =>
        /\ Len(boundaries) >= 1
        /\ boundaries[1] = 0
        /\ boundaries[Len(boundaries)] = file.size
        /\ \A i \in DOMAIN boundaries :
               0 <= boundaries[i] /\ boundaries[i] <= file.size
        /\ \A i \in 1..(Len(boundaries) - 1) :
               boundaries[i] < boundaries[i + 1]
        /\ Len(boundaries) <= desired_num_chunks + 1

\* Two interior guesses of a large file snapped onto one marker occurrence
\* and were deduplicated.
C4_Witness ==
    /\ pc = "fcb_returned"
    /\ file.size > mini_chunk_size
    /\ desired_num_chunks = 3
    /\ Len(split_special_token) >= 1
    /\ Len(boundaries) = 3
    /\ boundaries[2] \in file.marks

\* C5: from the pretokenizer's table on, the counts of the table add up to
\* the number of tokens of the chunk after every merge, and every merge
\* returns a table with the sum of its argument.
C5_CountSumInvariant ==
    /\ pc # "pretokenize" => SumValues(dict_tokens) = BagCardinality(tokens)
    /\ Merged => SumValues(dict_tokens) = SumValues(token_dict)

\* Three merges ran on a table of two sequences, one of them counted twice.
C5_Witness ==
    /\ iteration >= 3
    /\ Len(dict_tokens) = 2
    /\ BagCardinality(tokens) >= 3
    /\ dict_tokens # token_dict

\* C6: the symbols of every rewritten sequence concatenate to the same
\* string as the symbols of the sequence it was rewritten from, and the
\* result's keys spell exactly the strings the argument's keys spell.
C6_MergeKeepsCharacters ==
    Merged =>
        /\ \A i \in DOMAIN token_dict :
               LET out == NewTokenTuple(token_dict[i][1], pair_to_merge)
               IN  /\ out \in DictKeys(dict_tokens)
                   /\ Flatten(out) = Flatten(token_dict[i][1])
        /\ {Flatten(k) : k \in DictKeys(dict_tokens)}
               = {Flatten(k) : k \in DictKeys(token_dict)}

\* A merge rewrote a sequence of three symbols into two.
C6_Witness ==
    /\ Merged
    /\ \E i \in DOMAIN token_dict :
           /\ Len(token_dict[i][1]) = 3
           /\ Len(NewTokenTuple(token_dict[i][1], pair_to_merge)) = 2
           /\ NewTokenTuple(token_dict[i][1], pair_to_merge)
                  \in DictKeys(dict_tokens)

\* C7: find_chunk_boundaries raises, and returns no list, whenever the
\* marker is empty or desired_num_chunks < 1.
C7_RejectsInvalidArguments ==
    (Len(split_special_token) = 0 \/ desired_num_chunks < 1)
        => pc # "fcb_returned"

\* C8: for a non-empty marker, the boundary of every interior guess the
\* loop has finished is the start of the first marker occurrence at or
\* after the guess, or the file size when there is none.
C8_SnapsToFirstOccurrence ==
    (pc \in {"fcb_for", "fcb_read", "fcb_returned"}
        /\ Len(split_special_token) >= 1) =>
        \A k \in 1..(bi - 1) :
            chunk_boundaries[k + 1] =
                FirstOccurrence(file, split_special_token, k * chunk_size)

\* C9: every sequence is rewritten by one left-to-right non-overlapping
\* pass: the result is the sequence with the greedy matches replaced by
\* their concatenation, and is shorter by the number of those matches.
C9_GreedyNonOverlappingPass ==
    Merged =>
        \A i \in DOMAIN token_dict :
            LET t == token_dict[i][1]
                out == NewTokenTuple(t, pair_to_merge)
            IN  /\ out = GreedyResult(t, pair_to_merge)
                /\ out \in DictKeys(dict_tokens)
                /\ Len(out) = Len(t)
                                - Cardinality(GreedyStarts(t, pair_to_merge))

\* (A, A, A) merged with (A, A) gave (AA, A), for A = 'a'.
C9_Witness ==
    /\ Merged
    /\ pair_to_merge = <<(<<97>>), (<<97>>)>>
    /\ <<(<<97>>), (<<97>>), (<<97>>)>> \in DictKeys(token_dict)
    /\ <<(<<97, 97>>), (<<97>>)>> \in DictKeys(dict_tokens)

\* C10: the pair update_token_pairs returns occurs in a sequence of the
\* table, every merge of the loop returns a table of fewer symbols, and
\* the merges done plus the merges the table can still take never exceed
\* the symbols minus the sequences of the pretokenizer's table.
C10_LoopProgress ==
    /\ pc = "loop_merge" =>
           \E i \in DOMAIN dict_tokens :
               \E p \in 1..(Len(dict_tokens[i][1]) - 1) :
                   MatchAt(dict_tokens[i][1], most_frequent_pair, p)
    /\ Merged => TotalSymbols(dict_tokens) < TotalSymbols(token_dict)
    /\ pc # "pretokenize" =>
           iteration + Slack(dict_tokens)
               <= InitialSlack

\* The loop used every merge the pretokenizer's table of two or more
\* sequences could take.
C10_Witness ==
    /\ pc = "loop_update"
    /\ iteration >= 2
    /\ iteration = InitialSlack
    /\ Len(dict_tokens) >= 2

====
